---- MODULE Spec2Model ----
(***************************************************************************)
(* Model of the image-optimization repository:                             *)
(*   - functions/url-rewrite/index.js: the CloudFront viewer-request       *)
(*     function `handler`, a pure function of the request;                 *)
(*   - lib/image-optimization-stack.ts and its second variant              *)
(*     (unnamed/part_000): the CDK stack that wires the distribution, the  *)
(*     origin (group), the shared secret and the image-processing Lambda.  *)
(* JavaScript strings are sequences of one-character strings, so that      *)
(* toLowerCase, includes, parseInt, toString and + are computed, not       *)
(* assumed.                                                                *)
(***************************************************************************)
EXTENDS Integers, Sequences, FiniteSets, TLC

VARIABLES
    event,            \* rewrite run: the request handed to handler(event)
    request,          \* rewrite run: the request the handler returned
    imageOperations,  \* rewrite run: the handler's local imageOperations at return
    pc,               \* rewrite run: "start" before the call, "done" after it
    deployment,       \* the context the stack was synthesized with
    transformedImages,\* the transformed-image bucket: canonical key -> stored variant
    edgeCache,        \* the distribution's cache: canonical key -> cached status
    inflight          \* the requests being served, by slot

rewriteVars == <<event, request, imageOperations, pc>>
deliveryVars == <<deployment, transformedImages, edgeCache, inflight>>
vars == <<rewriteVars, deliveryVars>>

----------------------------------------------------------------------------
(* Bounds of the model. *)

\* Largest number of keys of request.querystring that are enumerated.
MaxParams == 3

\* Number of requests the distribution serves at the same time.
MaxInFlight == 2

----------------------------------------------------------------------------
(* JavaScript string primitives. *)

UpperAlpha == <<"A","B","C","D","E","F","G","H","I","J","K","L","M",
                "N","O","P","Q","R","S","T","U","V","W","X","Y","Z">>
LowerAlpha == <<"a","b","c","d","e","f","g","h","i","j","k","l","m",
                "n","o","p","q","r","s","t","u","v","w","x","y","z">>

\* The lower-case letter of each upper-case letter.
LowerOf ==
    [c \in {UpperAlpha[i] : i \in 1..Len(UpperAlpha)} |->
        LowerAlpha[CHOOSE i \in 1..Len(UpperAlpha) : UpperAlpha[i] = c]]

LowerChar(c) == IF c \in DOMAIN LowerOf THEN LowerOf[c] ELSE c

\* String.prototype.toLowerCase
toLowerCase(s) == [i \in 1..Len(s) |-> LowerChar(s[i])]

\* String.prototype.includes
includes(s, needle) ==
    \E i \in 0..(Len(s) - Len(needle)) :
        \A j \in 1..Len(needle) : s[i + j] = needle[j]

\* Array.prototype.join(',') on an array of strings
RECURSIVE join(_)
join(arr) ==
    IF arr = <<>> THEN <<>>
    ELSE IF Len(arr) = 1 THEN arr[1]
    ELSE arr[1] \o <<",">> \o join(Tail(arr))

\* The result of parseInt: NaN, or an integer.
NaN == [nan |-> TRUE, val |-> 0]
Num(n) == [nan |-> FALSE, val |-> n]
isNaN(x) == x.nan

WhiteSpace == {" ", "\t"}

RECURSIVE StripLeadingWhiteSpace(_)
StripLeadingWhiteSpace(s) ==
    IF s # <<>> /\ Head(s) \in WhiteSpace
    THEN StripLeadingWhiteSpace(Tail(s))
    ELSE s

HexDigits == <<"0","1","2","3","4","5","6","7","8","9",
               "a","b","c","d","e","f">>

\* The value of each digit character.
DigitOf ==
    [c \in {HexDigits[i] : i \in 1..Len(HexDigits)} |->
        (CHOOSE i \in 1..Len(HexDigits) : HexDigits[i] = c) - 1]

\* The value of character c as a digit in the radix, or -1.
DigitValue(c, radix) ==
    LET l == LowerChar(c)
    IN IF l \in DOMAIN DigitOf /\ DigitOf[l] < radix THEN DigitOf[l] ELSE -1

\* The value of the longest prefix of s made of digits of the radix,
\* as <<number of digits, value>>.
RECURSIVE DigitsPrefix(_, _, _, _)
DigitsPrefix(s, radix, count, acc) ==
    IF s # <<>> /\ DigitValue(Head(s), radix) >= 0
    THEN DigitsPrefix(Tail(s), radix, count + 1,
                      acc * radix + DigitValue(Head(s), radix))
    ELSE <<count, acc>>

\* parseInt(string) with no radix argument (ECMAScript 18.2.5): leading white
\* space is skipped, one sign is read, a 0x/0X prefix selects radix 16, and the
\* longest prefix of digits is the value; no digit at all gives NaN.
parseInt(s) ==
    LET t == StripLeadingWhiteSpace(s)
        signed == t # <<>> /\ Head(t) \in {"-", "+"}
        sign == IF t # <<>> /\ Head(t) = "-" THEN -1 ELSE 1
        u == IF signed THEN Tail(t) ELSE t
        hex == Len(u) >= 2 /\ u[1] = "0" /\ u[2] \in {"x", "X"}
        body == IF hex THEN Tail(Tail(u)) ELSE u
        d == DigitsPrefix(body, IF hex THEN 16 ELSE 10, 0, 0)
    IN IF d[1] = 0 THEN NaN ELSE Num(sign * d[2])

\* Number.prototype.toString() of a positive integer (decimal digits).
RECURSIVE toString(_)
toString(n) ==
    IF n < 10 THEN <<HexDigits[n + 1]>>
    ELSE toString(n \div 10) \o <<HexDigits[(n % 10) + 1]>>

\* The largest element of a set of integers.
Max(S) == CHOOSE x \in S : \A y \in S : y <= x

\* A JavaScript string is truthy iff it is not empty.
Truthy(s) == s # <<>>

----------------------------------------------------------------------------
(* String literals of url-rewrite/index.js. *)

S_format == <<"f","o","r","m","a","t">>
S_width == <<"w","i","d","t","h">>
S_height == <<"h","e","i","g","h","t">>
S_quality == <<"q","u","a","l","i","t","y">>
S_auto == <<"a","u","t","o">>
S_jpeg == <<"j","p","e","g">>
S_webp == <<"w","e","b","p">>
S_avif == <<"a","v","i","f">>
S_png == <<"p","n","g">>
S_original == <<"o","r","i","g","i","n","a","l">>

SUPPORTED_FORMATS == {S_auto, S_jpeg, S_webp, S_avif, S_png}

\* An object with no own property (imageOperations = {}, querystring = {}).
EmptyObject == [k \in {} |-> <<>>]

\* obj[key] = value
SetProp(obj, key, value) ==
    [k \in (DOMAIN obj) \cup {key} |-> IF k = key THEN value ELSE obj[k]]

----------------------------------------------------------------------------
(* functions/url-rewrite/index.js: handler(event).                         *)
(* A request is [uri, querystring, headers].  request.querystring is       *)
(* [defined, keys]: `defined` is FALSE for a missing (falsy) querystring,  *)
(* and `keys` lists the object's own properties as [name, value] in        *)
(* Object.keys order; the names of one object are pairwise different       *)
(* (compared exactly, as JavaScript property names are).                   *)
(* request.headers is [accept |-> [present, value]].                       *)

\* Mutant of NegotiatedFormat: webp is tested before avif.
NegotiatedFormatWebpFirst(headers) ==
    IF headers.accept.present
    THEN IF includes(headers.accept.value, S_webp) THEN S_webp
         ELSE IF includes(headers.accept.value, S_avif) THEN S_avif
         ELSE S_jpeg
    ELSE S_jpeg

\* Lines 24-33: format 'auto' resolved against request.headers['accept'].
NegotiatedFormat(headers) ==
    IF headers.accept.present
    THEN IF includes(headers.accept.value, S_avif) THEN S_avif
         ELSE IF includes(headers.accept.value, S_webp) THEN S_webp
         ELSE S_jpeg
    ELSE S_jpeg

\* Lines 13-36: case 'format'.
FormatCase(ops, value, headers) ==
    IF Truthy(value) /\ toLowerCase(value) \in SUPPORTED_FORMATS
    THEN LET format == toLowerCase(value)
         IN SetProp(ops, "format",
                    IF format = S_auto THEN NegotiatedFormat(headers) ELSE format)
    ELSE ops

\* Mutant of WidthCase: the test is width >= 0.
WidthCaseNonNegative(ops, value) ==
    IF Truthy(value)
    THEN LET width == parseInt(value)
         IN IF ~isNaN(width) /\ width.val >= 0
            THEN SetProp(ops, "width", toString(width.val))
            ELSE ops
    ELSE ops

\* Lines 37-47: case 'width'.
WidthCase(ops, value) ==
    IF Truthy(value)
    THEN LET width == parseInt(value)
         IN IF ~isNaN(width) /\ width.val > 0
            THEN SetProp(ops, "width", toString(width.val))
            ELSE ops
    ELSE ops

\* Lines 48-58: case 'height'.
HeightCase(ops, value) ==
    IF Truthy(value)
    THEN LET height == parseInt(value)
         IN IF ~isNaN(height) /\ height.val > 0
            THEN SetProp(ops, "height", toString(height.val))
            ELSE ops
    ELSE ops

\* Mutant of ClampQuality: the clamp is left out.
ClampQualityMissing(quality) == quality

\* Line 63: if (quality > 100) quality = 100.
ClampQuality(quality) == IF quality > 100 THEN 100 ELSE quality

\* Lines 59-67: case 'quality'.
QualityCase(ops, value) ==
    IF Truthy(value)
    THEN LET quality == parseInt(value)
         IN IF ~isNaN(quality) /\ quality.val > 0
            THEN SetProp(ops, "quality", toString(ClampQuality(quality.val)))
            ELSE ops
    ELSE ops

\* Lines 12-69: the switch on operation.toLowerCase() for one key.
Operation(ops, key, headers) ==
    LET operation == toLowerCase(key.name)
    IN CASE operation = S_format -> FormatCase(ops, key.value, headers)
         [] operation = S_width -> WidthCase(ops, key.value)
         [] operation = S_height -> HeightCase(ops, key.value)
         [] operation = S_quality -> QualityCase(ops, key.value)
         [] OTHER -> ops

\* Lines 11-70: Object.keys(request.querystring).forEach(...), in key order.
RECURSIVE forEach(_, _, _)
forEach(ops, keys, headers) ==
    IF keys = <<>> THEN ops
    ELSE forEach(Operation(ops, Head(keys), headers), Tail(keys), headers)

\* if (imageOperations.<name>): the property exists and is a non-empty string.
HasOperation(ops, name) == name \in DOMAIN ops /\ Truthy(ops[name])

\* Lines 79-81.
PushFormat(queryStrings, ops) ==
    IF HasOperation(ops, "format")
    THEN Append(queryStrings, S_format \o <<"=">> \o ops["format"])
    ELSE queryStrings

\* Lines 83-85.
PushQuality(queryStrings, ops) ==
    IF HasOperation(ops, "quality")
    THEN Append(queryStrings, S_quality \o <<"=">> \o ops["quality"])
    ELSE queryStrings

\* Lines 87-89.
PushWidth(queryStrings, ops) ==
    IF HasOperation(ops, "width")
    THEN Append(queryStrings, S_width \o <<"=">> \o ops["width"])
    ELSE queryStrings

\* Lines 91-93.
PushHeight(queryStrings, ops) ==
    IF HasOperation(ops, "height")
    THEN Append(queryStrings, S_height \o <<"=">> \o ops["height"])
    ELSE queryStrings

\* Mutant of NormalizedPath: the dimensions are pushed before format and quality.
NormalizedPathDimensionsFirst(originalImagePath, ops) ==
    LET queryStrings ==
            PushQuality(PushFormat(PushHeight(PushWidth(<<>>, ops), ops), ops), ops)
    IN originalImagePath \o <<"/">> \o join(queryStrings)

\* Lines 77-95: the normalized path of a request with valid operations.
NormalizedPath(originalImagePath, ops) ==
    LET queryStrings ==
            PushHeight(PushWidth(PushQuality(PushFormat(<<>>, ops), ops), ops), ops)
    IN originalImagePath \o <<"/">> \o join(queryStrings)

\* Lines 101 and 108: the request is flagged with the /original suffix.
OriginalPath(originalImagePath) == originalImagePath \o <<"/">> \o S_original

\* Mutant of ImageOperationsOf: a format is negotiated before the keys are read,
\* so that a request without a format parameter gets one too.
ImageOperationsNegotiatedByDefault(req) ==
    IF req.querystring.defined
    THEN forEach(SetProp(EmptyObject, "format", NegotiatedFormat(req.headers)),
                 req.querystring.keys, req.headers)
    ELSE EmptyObject

\* Lines 8-70: imageOperations when the handler returns.
ImageOperationsOf(req) ==
    IF req.querystring.defined
    THEN forEach(EmptyObject, req.querystring.keys, req.headers)
    ELSE EmptyObject

\* Lines 75-109: the uri the handler assigns.
RewrittenUri(req, ops) ==
    LET originalImagePath == req.uri
    IN IF req.querystring.defined
       THEN IF Cardinality(DOMAIN ops) > 0
            THEN NormalizedPath(originalImagePath, ops)
            ELSE OriginalPath(originalImagePath)
       ELSE OriginalPath(originalImagePath)

\* Mutant of RemoveQueryStrings: the query strings are left in place.
RemoveQueryStringsMissing(req) == req

\* Lines 111-114: request['querystring'] = {}.
RemoveQueryStrings(req) ==
    [req EXCEPT !.querystring = [defined |-> TRUE, keys |-> <<>>]]

\* Lines 1-116: the request handler(event) returns.
handler(ev) ==
    LET ops == ImageOperationsOf(ev)
    IN RemoveQueryStrings([ev EXCEPT !.uri = RewrittenUri(ev, ops)])

----------------------------------------------------------------------------
(* The requests the rewrite run enumerates. *)

Key(name, value) == [name |-> name, value |-> value]

S_Format == <<"F","o","r","m","a","t">>
S_Width == <<"W","i","d","t","h">>
S_bogus == <<"b","o","g","u","s">>

FormatValues == {S_auto, <<"P","N","G">>, <<"g","i","f">>}
WidthValues == {<<"3","0","0">>, <<"0">>, <<"-","5">>, <<"a","b","c">>, <<>>}
HeightValues == {<<"2","0","0">>, <<"0">>, <<"1","2","p","x">>}
QualityValues == {<<"5","5">>, <<"1","5","0">>, <<"0">>, <<"a","b","c">>}

\* The [name, value] properties a query string is built from.
ParamChoices ==
    {Key(S_format, v) : v \in FormatValues}
    \cup {Key(S_Format, <<"A","u","t","o">>)}
    \cup {Key(S_width, v) : v \in WidthValues}
    \cup {Key(S_Width, <<"0","x","1","F">>)}
    \cup {Key(S_height, v) : v \in HeightValues}
    \cup {Key(S_quality, v) : v \in QualityValues}
    \cup {Key(S_bogus, <<"1">>)}

\* The objects with at most MaxParams properties, their names pairwise different.
QueryObjects ==
    UNION {{q \in [1..n -> ParamChoices] :
                \A i, j \in 1..n : i # j => q[i].name # q[j].name} :
           n \in 0..MaxParams}

QueryStrings ==
    {[defined |-> FALSE, keys |-> <<>>]}
    \cup {[defined |-> TRUE, keys |-> q] : q \in QueryObjects}

S_accept_avif == <<"i","m","a","g","e","/","a","v","i","f",",",
                   "i","m","a","g","e","/","w","e","b","p">>
S_accept_webp == <<"i","m","a","g","e","/","w","e","b","p">>
S_accept_any == <<"*","/","*">>

AcceptHeaders ==
    {[present |-> FALSE, value |-> <<>>]}
    \cup {[present |-> TRUE, value |-> v] :
            v \in {S_accept_avif, S_accept_webp, S_accept_any}}

S_cat == <<"/","c","a","t",".","p","n","g">>

Paths == {S_cat}

Events ==
    [uri : Paths, querystring : QueryStrings,
     headers : [accept : AcceptHeaders]]

----------------------------------------------------------------------------
(* The CDK stack: lib/image-optimization-stack.ts and its variant          *)
(* unnamed/part_000.  A deployment is the stack file that was synthesized  *)
(* and the context values STORE_TRANSFORMED_IMAGES and                      *)
(* CLOUDFRONT_CORS_ENABLED it was given.                                   *)

LibStack == "lib/image-optimization-stack.ts"
PartStack == "unnamed/part_000"

Deployments ==
    [stack : {LibStack, PartStack}, STORE_TRANSFORMED_IMAGES : {"true", "false"},
     CLOUDFRONT_CORS_ENABLED : {"true", "false"}]

\* createHash('md5').update(this.node.addr).digest('hex'): one token per
\* deployment, computed once and used as it is in both places below.
SECRET_KEY == "md5(node.addr)"

\* Whether the stack creates the bucket for transformed images.
transformedImageBucket(d) ==
    IF d.stack = LibStack THEN TRUE
    ELSE d.STORE_TRANSFORMED_IMAGES = "true"

\* lambdaEnv without the name of the bucket for transformed images.
LambdaEnvWithoutBucket(d) ==
    [secretKey |-> SECRET_KEY, transformedImageBucketName |-> FALSE]

\* The environment of the image-processing Lambda.
lambdaEnv(d) ==
    [secretKey |-> SECRET_KEY,
     transformedImageBucketName |-> transformedImageBucket(d)]

\* customHeaders carrying a value that is not the Lambda's secret.
CustomHeadersOtherSecret == [h \in {"x-origin-secret-header"} |-> "md5(other)"]

\* customHeaders of the HttpOrigin that is the Lambda URL.
customHeaders == [h \in {"x-origin-secret-header"} |-> SECRET_KEY]

\* fallbackStatusCodes with 503 left out.
FallbackStatusCodesWithout503 == {403, 500, 504}

fallbackStatusCodes == {403, 500, 503, 504}

\* The headers the distribution sets on every response of the default
\* behavior (override: true): those of the response headers policy, which is
\* attached only when CORS is enabled.
responseHeadersPolicy(d) ==
    IF d.CLOUDFRONT_CORS_ENABLED = "true"
    THEN [h \in {"x-aws-image-optimization", "vary"} |->
             IF h = "vary" THEN "accept" ELSE "v1.0"]
    ELSE [h \in {} |-> ""]

\* The origin of the distribution's default behavior.
imageOrigin(d) ==
    IF transformedImageBucket(d)
    THEN [kind |-> "OriginGroup",
          customHeaders |-> customHeaders,
          fallbackStatusCodes |-> fallbackStatusCodes]
    ELSE [kind |-> "HttpOrigin",
          customHeaders |-> customHeaders,
          fallbackStatusCodes |-> {}]

----------------------------------------------------------------------------
(* The image-processing Lambda (functions/image-processing), which is not  *)
(* among the source files: modelled from section 4.6 of the specification. *)

\* The position of the last '/' of a canonical key.
LastSlash(uri) == Max({i \in 1..Len(uri) : uri[i] = "/"})

\* The original asset path and the operations a canonical key decomposes into.
AssetOf(uri) == SubSeq(uri, 1, LastSlash(uri) - 1)
OperationsOf(uri) == SubSeq(uri, LastSlash(uri) + 1, Len(uri))

\* The transformed variant: a function of the asset and the operations only.
Transformed(uri) == [asset |-> AssetOf(uri), operations |-> OperationsOf(uri)]

\* Whether the variant exceeds the configured maximum output size: here the
\* untransformed original does, a transformed variant does not.
ExceedsMaxImageSize(uri) == OperationsOf(uri) = S_original

\* What can go wrong in an authorized invocation: the original asset is gone.
Faults == {"none", "asset not found"}

\* One invocation: the response status and what the Lambda did.  An
\* invocation whose secret header is missing or wrong is rejected first.
ComputeEngine(uri, headers, env, fault) ==
    LET authorized == /\ "x-origin-secret-header" \in DOMAIN headers
                      /\ headers["x-origin-secret-header"] = env.secretKey
        rejected == [status |-> 403, fetched |-> FALSE, transformed |-> FALSE,
                     stored |-> FALSE]
    IN IF ~authorized THEN rejected
       ELSE IF fault = "asset not found"
       THEN [rejected EXCEPT !.status = 404, !.fetched = TRUE]
       ELSE IF ExceedsMaxImageSize(uri)
       THEN IF env.transformedImageBucketName
            THEN [status |-> 302, fetched |-> TRUE, transformed |-> TRUE,
                  stored |-> TRUE]
            ELSE [status |-> 413, fetched |-> TRUE, transformed |-> TRUE,
                  stored |-> FALSE]
       ELSE [status |-> 200, fetched |-> TRUE, transformed |-> TRUE,
             stored |-> env.transformedImageBucketName]

----------------------------------------------------------------------------
(* The deployment serving requests.  A slot of `inflight` holds one        *)
(* request of a client, sent to the distribution or straight to the Lambda *)
(* URL, with the response it got until the slot is taken again.            *)

Slots == 1..MaxInFlight

\* The inbound requests of the delivery run: the specification's scenario
\* /cat.png?width=300&format=auto with Accept: image/webp, and /cat.png.
DeliveryEvents ==
    {[uri |-> S_cat,
      querystring |-> [defined |-> TRUE,
                       keys |-> <<Key(S_width, <<"3","0","0">>),
                                  Key(S_format, S_auto)>>],
      headers |-> [accept |-> [present |-> TRUE, value |-> S_accept_webp]]],
     [uri |-> S_cat,
      querystring |-> [defined |-> TRUE, keys |-> <<>>],
      headers |-> [accept |-> [present |-> FALSE, value |-> <<>>]]]}

\* The inbound requests forwarded as they came, the function not being run.
NormalizedNotRewritten == [ev \in DeliveryEvents |-> ev]

\* The url-rewrite function applied to each inbound request.
Normalized == [ev \in DeliveryEvents |-> handler(ev)]

NoHeaders == [h \in {} |-> ""]

\* An origin response held for a request: where it came from, its status,
\* and, of the Lambda, what it did to produce it.
NoResponse ==
    [origin |-> "none", status |-> 0, headers |-> NoHeaders, fetched |-> FALSE,
     transformed |-> FALSE, stored |-> FALSE]

\* The response of the Lambda that ended as `done`.
LambdaResponse(done) ==
    [origin |-> "Lambda", status |-> done.status, headers |-> NoHeaders,
     fetched |-> done.fetched, transformed |-> done.transformed,
     stored |-> done.stored]

\* warm: while the primary lookup of the request is pending, whether the key
\* was stored when the request arrived.
Idle ==
    [pc |-> "IDLE", via |-> "distribution", uri |-> <<>>, warm |-> FALSE,
     primaryAttempts |-> 0, computeCalls |-> 0,
     originHeaders |-> NoHeaders, response |-> NoResponse]

Terminal == {"SERVE", "STORE_AND_SERVE", "REDIRECT", "ERROR"}

\* The request as the distribution leaves it: once its response is the one
\* sent to the viewer, the headers of the response headers policy are set on
\* it, over those of the origin.
ViewerResponse(slot) ==
    IF slot.pc \in Terminal
    THEN [slot EXCEPT !.response.headers = responseHeadersPolicy(deployment) @@ @]
    ELSE slot

\* The slot holds no request that is still being served.
Free(r) == inflight[r].pc \in Terminal \cup {"IDLE"}

\* The statuses the bucket can answer a GET of the key with: the object, or
\* 403 when there is none (the origin access identity may not list the
\* bucket), or a server-side error.
PrimaryStatuses(key) ==
    (IF key \in DOMAIN transformedImages THEN {200} ELSE {403}) \cup {500, 503, 504}

\* functionAssociations, VIEWER_REQUEST: the url-rewrite function is run on
\* the request as it arrives; the cache is then looked up by the rewritten
\* request, and on a miss the request is forwarded to the origin: the bucket
\* when the origin is an origin group, the Lambda URL (with the custom
\* headers) when it is the sole origin.  The lowest free slot is taken.
ViewerRequest(r, ev) ==
    /\ Free(r)
    /\ \A q \in Slots : q < r => ~Free(q)
    /\ LET normalized == Normalized[ev]
           key == normalized.uri
           origin == imageOrigin(deployment)
           arrived == [Idle EXCEPT !.pc = "NORMALIZED", !.uri = key]
       IN inflight' = [inflight EXCEPT ![r] = ViewerResponse(
              IF key \in DOMAIN edgeCache
              THEN [arrived EXCEPT
                       !.pc = IF edgeCache[key] = 302 THEN "REDIRECT" ELSE "SERVE",
                       !.response = [NoResponse EXCEPT
                                        !.origin = "edge cache",
                                        !.status = edgeCache[key]]]
              ELSE IF origin.kind = "OriginGroup"
              THEN [arrived EXCEPT !.pc = "PRIMARY_LOOKUP",
                                   !.warm = key \in DOMAIN transformedImages,
                                   !.primaryAttempts = @ + 1]
              ELSE [arrived EXCEPT !.pc = "FALLBACK_COMPUTE",
                                   !.computeCalls = @ + 1,
                                   !.originHeaders = origin.customHeaders])]
    /\ UNCHANGED <<deployment, transformedImages, edgeCache>>
    /\ UNCHANGED rewriteVars

\* The primary origin answers.  A status among fallbackStatusCodes fails the
\* request over to the Lambda URL, with the custom headers; any other
\* response is the response of the request.
PrimaryRespond(r, status) ==
    /\ inflight[r].pc = "PRIMARY_LOOKUP"
    /\ status \in PrimaryStatuses(inflight[r].uri)
    /\ LET key == inflight[r].uri
           origin == imageOrigin(deployment)
           failover == status \in origin.fallbackStatusCodes
           answer == [NoResponse EXCEPT !.origin = "bucket", !.status = status]
       IN /\ inflight' = [inflight EXCEPT ![r] = ViewerResponse(
                 IF failover
                 THEN [@ EXCEPT !.pc = "FALLBACK_COMPUTE",
                                !.warm = FALSE,
                                !.response = answer,
                                !.computeCalls = @ + 1,
                                !.originHeaders = origin.customHeaders]
                 ELSE [@ EXCEPT !.pc = IF status = 200 THEN "SERVE" ELSE "ERROR",
                                !.warm = FALSE,
                                !.response = answer])]
          /\ edgeCache' = IF ~failover /\ status = 200
                          THEN SetProp(edgeCache, key, 200)
                          ELSE edgeCache
    /\ UNCHANGED <<deployment, transformedImages>>
    /\ UNCHANGED rewriteVars

\* The Lambda runs for the request and its response replaces the one held:
\* it is the response of the request, and is not looked at for a failover.
Compute(r, fault) ==
    /\ inflight[r].pc = "FALLBACK_COMPUTE"
    /\ LET key == inflight[r].uri
           done == ComputeEngine(key, inflight[r].originHeaders,
                                 lambdaEnv(deployment), fault)
       IN /\ inflight' = [inflight EXCEPT ![r] = ViewerResponse(
                 [@ EXCEPT !.pc = CASE done.status = 200 -> "STORE_AND_SERVE"
                                    [] done.status = 302 -> "REDIRECT"
                                    [] OTHER -> "ERROR",
                           !.response = LambdaResponse(done)])]
          /\ transformedImages' = IF done.stored
                                  THEN SetProp(transformedImages, key, Transformed(key))
                                  ELSE transformedImages
          /\ edgeCache' = IF done.status \in {200, 302}
                          THEN SetProp(edgeCache, key, done.status)
                          ELSE edgeCache
    /\ UNCHANGED <<deployment>>
    /\ UNCHANGED rewriteVars

\* obj without the property key.
DeleteProp(obj, key) == [k \in (DOMAIN obj) \ {key} |-> obj[k]]

\* lifecycleRules: a stored variant expires.
Expire(key) ==
    /\ key \in DOMAIN transformedImages
    /\ transformedImages' = DeleteProp(transformedImages, key)
    /\ UNCHANGED <<deployment, edgeCache, inflight>>
    /\ UNCHANGED rewriteVars

\* cachePolicy: a cached response reaches its TTL.
EdgeExpire(key) ==
    /\ key \in DOMAIN edgeCache
    /\ edgeCache' = DeleteProp(edgeCache, key)
    /\ UNCHANGED <<deployment, transformedImages, inflight>>
    /\ UNCHANGED rewriteVars

\* The headers of a call that does not come from the distribution: no secret
\* header, or one with another value.
ForeignHeaders ==
    {NoHeaders, [h \in {"x-origin-secret-header"} |-> "guess"]}

\* authType NONE: the Lambda URL can be called by anyone, with any key.
DirectInvoke(r, key, headers) ==
    /\ Free(r)
    /\ \A q \in Slots : q < r => ~Free(q)
    /\ LET done == ComputeEngine(key, headers, lambdaEnv(deployment), "none")
       IN /\ inflight' = [inflight EXCEPT ![r] =
                 [Idle EXCEPT !.pc = CASE done.status = 200 -> "STORE_AND_SERVE"
                                       [] done.status = 302 -> "REDIRECT"
                                       [] OTHER -> "ERROR",
                              !.via = "Lambda URL",
                              !.uri = key,
                              !.computeCalls = 1,
                              !.originHeaders = headers,
                              !.response = LambdaResponse(done)]]
          /\ transformedImages' = IF done.stored
                                  THEN SetProp(transformedImages, key, Transformed(key))
                                  ELSE transformedImages
    /\ UNCHANGED <<deployment, edgeCache>>
    /\ UNCHANGED rewriteVars

DeliveryKeys == {Normalized[ev].uri : ev \in DeliveryEvents}

----------------------------------------------------------------------------
(* The rewrite run: one call of handler on an enumerated request. *)

InitRewrite ==
    /\ event \in Events
    /\ request = event
    /\ imageOperations = EmptyObject
    /\ pc = "start"
    /\ deployment = [stack |-> LibStack, STORE_TRANSFORMED_IMAGES |-> "true",
                     CLOUDFRONT_CORS_ENABLED |-> "true"]
    /\ transformedImages = EmptyObject
    /\ edgeCache = EmptyObject
    /\ inflight = [r \in Slots |-> Idle]

\* CloudFront calls the viewer-request function once per request.
Rewrite ==
    /\ pc = "start"
    /\ imageOperations' = ImageOperationsOf(event)
    /\ request' = handler(event)
    /\ pc' = "done"
    /\ UNCHANGED <<event, deliveryVars>>

NextRewrite == Rewrite

SpecRewrite == InitRewrite /\ [][NextRewrite]_vars

----------------------------------------------------------------------------
(* The delivery run: a deployment serving requests. *)

\* Any deployment.
InitHeaders ==
    /\ deployment \in Deployments
    /\ transformedImages = EmptyObject
    /\ edgeCache = EmptyObject
    /\ inflight = [r \in Slots |-> Idle]
    /\ event \in DeliveryEvents
    /\ event.querystring.keys = <<>>
    /\ request = event
    /\ imageOperations = EmptyObject
    /\ pc = "start"

\* A deployment that leaves CLOUDFRONT_CORS_ENABLED as the stack sets it.
Init ==
    /\ InitHeaders
    /\ deployment.CLOUDFRONT_CORS_ENABLED = "true"

Next ==
    \/ \E r \in Slots, ev \in DeliveryEvents : ViewerRequest(r, ev)
    \/ \E r \in Slots, status \in {200, 403, 500, 503, 504} : PrimaryRespond(r, status)
    \/ \E r \in Slots, fault \in Faults : Compute(r, fault)
    \/ \E key \in DeliveryKeys : Expire(key)
    \/ \E key \in DeliveryKeys : EdgeExpire(key)
    \/ \E r \in Slots, key \in DeliveryKeys, headers \in ForeignHeaders :
           DirectInvoke(r, key, headers)

Spec == Init /\ [][Next]_vars

SpecHeaders == InitHeaders /\ [][Next]_vars

----------------------------------------------------------------------------
(* Vocabulary of the statements about the rewrite run. *)

\* The keys of the inbound request (none when the querystring is missing).
EventKeys == IF event.querystring.defined THEN event.querystring.keys ELSE <<>>

\* The key names the operation `op`, letter case ignored.
Names(key, op) == toLowerCase(key.name) = op

\* The raw value parses (parseInt) as a strictly positive integer.
IsPositiveInteger(value) ==
    ~isNaN(parseInt(value)) /\ parseInt(value).val > 0

\* The raw value is a supported format, letter case ignored.
IsSupportedFormat(value) ==
    toLowerCase(value) \in {S_auto, S_jpeg, S_webp, S_avif, S_png}

\* The key is a recognized parameter with a valid value.
IsAccepted(key) ==
    \/ Names(key, S_format) /\ IsSupportedFormat(key.value)
    \/ /\ Names(key, S_width) \/ Names(key, S_height) \/ Names(key, S_quality)
       /\ IsPositiveInteger(key.value)

\* The positions of the keys that name `op` with a valid value.
AcceptedAt(keys, op) ==
    {i \in 1..Len(keys) : Names(keys[i], op) /\ IsAccepted(keys[i])}

\* The raw value of the effective parameter `op`: the last valid one.
EffectiveValue(keys, op) == keys[Max(AcceptedAt(keys, op))].value

\* s starts with the prefix p.
StartsWith(s, p) == Len(p) <= Len(s) /\ SubSeq(s, 1, Len(p)) = p

\* The token of the operation in the handler's imageOperations, as an array
\* of zero or one string.
Token(literal, name) ==
    IF name \in DOMAIN imageOperations
    THEN <<literal \o <<"=">> \o imageOperations[name]>>
    ELSE <<>>

\* The keys with position i left out.
RemoveAt(keys, i) == SubSeq(keys, 1, i - 1) \o SubSeq(keys, i + 1, Len(keys))

\* The event with its keys replaced.
WithKeys(ev, keys) ==
    [ev EXCEPT !.querystring = [defined |-> TRUE, keys |-> keys]]

KeyOrders(n) ==
    {f \in [1..n -> 1..n] : \A i, j \in 1..n : i # j => f[i] # f[j]}

\* The same properties presented in every other order.
Reordered(keys) ==
    {[i \in 1..Len(keys) |-> keys[f[i]]] : f \in KeyOrders(Len(keys))}

\* The value of a string of decimal digits.
RECURSIVE DecimalValue(_)
DecimalValue(s) ==
    IF s = <<>> THEN 0
    ELSE 10 * DecimalValue(SubSeq(s, 1, Len(s) - 1))
         + DigitValue(s[Len(s)], 10)

----------------------------------------------------------------------------
(* C1: two requests with the same path, the same Accept header and the     *)
(* same name/value pairs in a different order get the same rewritten uri.  *)
(* Stated for every reordering of the keys of the request.                 *)
C1_OrderIndependent ==
    pc = "done" =>
        \A keys \in Reordered(EventKeys) :
            handler(WithKeys(event, keys)).uri = request.uri

\* The part of C1 the handler satisfies: the order is irrelevant when no two
\* keys name the same operation (letter case ignored).
C1_OrderIndependentDistinctOperations ==
    (/\ pc = "done"
     /\ \A i, j \in 1..Len(EventKeys) :
            i # j => toLowerCase(EventKeys[i].name) # toLowerCase(EventKeys[j].name))
    => \A keys \in Reordered(EventKeys) :
            handler(WithKeys(event, keys)).uri = request.uri

(* C2: the rewritten uri is the original path, '/', and the comma-joined   *)
(* name=value tokens of the accepted parameters in the order format,       *)
(* quality, width, height, or 'original' exactly when none was accepted.   *)
C2_CanonicalPath ==
    pc = "done" =>
        LET tokens == Token(S_format, "format") \o Token(S_quality, "quality")
                      \o Token(S_width, "width") \o Token(S_height, "height")
            accepted == \E i \in 1..Len(EventKeys) : IsAccepted(EventKeys[i])
        IN /\ accepted <=> tokens # <<>>
           /\ \A op \in {S_format, S_quality, S_width, S_height} :
                  (AcceptedAt(EventKeys, op) # {})
                  <=> (\E i \in 1..Len(tokens) : StartsWith(tokens[i], op \o <<"=">>))
           /\ request.uri =
                  event.uri \o <<"/">>
                  \o (IF accepted THEN join(tokens) ELSE S_original)

C2_Witness ==
    /\ pc = "done"
    /\ DOMAIN imageOperations = {"format", "quality", "height"}
    /\ Len(EventKeys) = 3

(* C3: when the format parameter is auto (any letter case) the format      *)
(* token is avif if Accept contains avif, else webp if it contains webp,   *)
(* else jpeg (also without an Accept header); never format=auto.           *)
C3_AutoFormat ==
    pc = "done" =>
        /\ ~includes(request.uri, S_format \o <<"=">> \o S_auto)
        /\ (/\ AcceptedAt(EventKeys, S_format) # {}
            /\ toLowerCase(EffectiveValue(EventKeys, S_format)) = S_auto)
           => LET accept == event.headers.accept
                  avif == accept.present /\ includes(accept.value, S_avif)
                  webp == accept.present /\ includes(accept.value, S_webp)
                  expected == IF avif THEN S_avif
                              ELSE IF webp THEN S_webp ELSE S_jpeg
              IN StartsWith(request.uri,
                            event.uri \o <<"/">> \o S_format \o <<"=">> \o expected)

C3_Witness ==
    /\ pc = "done"
    /\ \E i \in 1..Len(EventKeys) :
           Names(EventKeys[i], S_format) /\ EventKeys[i].value = <<"A","u","t","o">>
    /\ event.headers.accept.present
    /\ event.headers.accept.value = S_accept_avif
    /\ StartsWith(request.uri, S_cat \o <<"/">> \o S_format \o <<"=">> \o S_avif)

\* The event with format=auto added as its last key.
WithFormatAuto(ev) ==
    WithKeys(ev, Append(IF ev.querystring.defined THEN ev.querystring.keys ELSE <<>>,
                        Key(S_format, S_auto)))

\* No key of the inbound request names format.
NoFormatParameter == \A i \in 1..Len(EventKeys) : ~Names(EventKeys[i], S_format)

(* C4, as claimed: a request without a format parameter gets the same      *)
(* negotiated format as the request with format=auto added.                *)
C4_AbsentFormatNegotiated ==
    (pc = "done" /\ NoFormatParameter)
    => request.uri = handler(WithFormatAuto(event)).uri

(* C4, amended: negotiation is applied only when the format parameter is   *)
(* auto; a request without a format parameter gets no format token, while  *)
(* the request with format=auto added gets the negotiated one.             *)
C4_AbsentFormatNoToken ==
    (pc = "done" /\ NoFormatParameter)
    => /\ "format" \notin DOMAIN imageOperations
       /\ ~includes(request.uri, S_format \o <<"=">>)
       /\ StartsWith(handler(WithFormatAuto(event)).uri,
                     event.uri \o <<"/">> \o S_format \o <<"=">>)

C4_Witness ==
    /\ pc = "done"
    /\ NoFormatParameter
    /\ event.headers.accept.present
    /\ event.headers.accept.value = S_accept_webp
    /\ request.uri = S_cat \o <<"/">> \o S_width \o <<"=","3","0","0">>

\* The raw values the specification lists as rejected: 0, -5 and abc.
RejectedExamples == {<<"0">>, <<"-","5">>, <<"a","b","c">>}

\* What C5 states of one dimension (width or height).
DimensionRule(literal, name) ==
    LET at == AcceptedAt(EventKeys, literal)
    IN /\ (name \in DOMAIN imageOperations) <=> (at # {})
       /\ (\A i \in 1..Len(EventKeys) :
               Names(EventKeys[i], literal) => EventKeys[i].value \in RejectedExamples)
          => name \notin DOMAIN imageOperations
       /\ at # {} =>
             /\ imageOperations[name] =
                    toString(parseInt(EffectiveValue(EventKeys, literal)).val)
             /\ DecimalValue(imageOperations[name]) > 0
             /\ includes(request.uri, literal \o <<"=">> \o imageOperations[name])
       /\ \A i \in 1..Len(EventKeys) :
              (Names(EventKeys[i], literal) /\ ~IsPositiveInteger(EventKeys[i].value))
              => handler(WithKeys(event, RemoveAt(EventKeys, i))).uri = request.uri

(* C5: a width (likewise a height) parameter contributes a token iff its   *)
(* raw value parses (parseInt) as a strictly positive integer; 0, negative *)
(* and non-numeric values are dropped, and a dropped parameter leaves the  *)
(* rewritten uri as it is without that parameter.                          *)
C5_DimensionsValidated ==
    pc = "done" =>
        /\ DimensionRule(S_width, "width")
        /\ DimensionRule(S_height, "height")

C5_Witness ==
    /\ pc = "done"
    /\ \E i, j \in 1..Len(EventKeys) :
           /\ EventKeys[i] = Key(S_width, <<"0">>)
           /\ EventKeys[j] = Key(S_height, <<"2","0","0">>)
    /\ request.uri = S_cat \o <<"/">> \o S_height \o <<"=","2","0","0">>

(* C6: a quality parameter is accepted iff it parses as an integer greater *)
(* than 0; above 100 it is emitted as 100, in 1..100 unchanged, so every   *)
(* quality token lies in 1..100; 0 and non-numeric values are dropped.     *)
C6_QualityClamped ==
    pc = "done" =>
        LET at == AcceptedAt(EventKeys, S_quality)
        IN /\ ("quality" \in DOMAIN imageOperations) <=> (at # {})
           /\ (\A i \in 1..Len(EventKeys) :
                   Names(EventKeys[i], S_quality)
                   => EventKeys[i].value \in {<<"0">>, <<"a","b","c">>})
              => "quality" \notin DOMAIN imageOperations
           /\ at # {} =>
                 LET n == parseInt(EffectiveValue(EventKeys, S_quality)).val
                     emitted == DecimalValue(imageOperations["quality"])
                 IN /\ emitted \in 1..100
                    /\ n > 100 => emitted = 100
                    /\ n \in 1..100 => emitted = n
                    /\ imageOperations["quality"] = toString(emitted)
                    /\ includes(request.uri,
                                S_quality \o <<"=">> \o imageOperations["quality"])

C6_Witness ==
    /\ pc = "done"
    /\ \E i \in 1..Len(EventKeys) : EventKeys[i] = Key(S_quality, <<"1","5","0">>)
    /\ imageOperations["quality"] = <<"1","0","0">>
    /\ request.uri = S_cat \o <<"/">> \o S_quality \o <<"=","1","0","0">>

(* C7: every inbound request, whatever its query parameters, leaves the    *)
(* handler with an empty query component: the returned request differs     *)
(* from the inbound one in its uri and its (now empty) querystring only.   *)
C7_QueryCleared ==
    pc = "done" =>
        /\ request.querystring.defined
        /\ request.querystring.keys = <<>>
        /\ request.headers = event.headers
        /\ StartsWith(request.uri, event.uri \o <<"/">>)

C7_Witness ==
    /\ pc = "done"
    /\ \E i, j \in 1..Len(EventKeys) :
           /\ EventKeys[i] = Key(S_bogus, <<"1">>)
           /\ EventKeys[j] = Key(S_width, <<"3","0","0">>)
    /\ request.querystring.keys = <<>>

----------------------------------------------------------------------------
(* Vocabulary of the statements about the delivery run. *)

\* The statuses the specification names as the fallback set.
FallbackSet == {403, 500, 503, 504}

\* The step ends the primary lookup of the request in slot r.
PrimaryAnswered(r) ==
    inflight[r].pc = "PRIMARY_LOOKUP" /\ inflight'[r].pc # "PRIMARY_LOOKUP"

\* The step invokes the Lambda for the request in slot r.
ComputeInvoked(r) ==
    /\ inflight'[r].via = "distribution"
    /\ inflight'[r].pc = "FALLBACK_COMPUTE"
    /\ inflight[r].pc # "FALLBACK_COMPUTE"

\* The step is the Lambda's response to the request in slot r.
ComputeAnswered(r) ==
    inflight[r].pc = "FALLBACK_COMPUTE" /\ inflight'[r].pc # "FALLBACK_COMPUTE"

\* The headers carry the secret the Lambda of the deployment was given.
CarriesSecret(headers) ==
    /\ "x-origin-secret-header" \in DOMAIN headers
    /\ headers["x-origin-secret-header"] = lambdaEnv(deployment).secretKey

OriginGroupConfigured == imageOrigin(deployment).kind = "OriginGroup"

\* What holds of every request of the distribution, whatever the routing:
\* at most one attempt at each origin and none on an edge cache hit; the
\* answer of the primary decides the failover; the Lambda's response ends
\* the request without a further attempt.
AttemptsRule(r) ==
    /\ inflight'[r].primaryAttempts <= 1
    /\ inflight'[r].computeCalls <= 1
    /\ inflight'[r].response.origin = "edge cache" =>
           inflight'[r].primaryAttempts = 0 /\ inflight'[r].computeCalls = 0
    /\ PrimaryAnswered(r) =>
           /\ inflight'[r].primaryAttempts = 1
           /\ IF inflight'[r].response.status \in FallbackSet
              THEN inflight'[r].pc = "FALLBACK_COMPUTE" /\ inflight'[r].computeCalls = 1
              ELSE inflight'[r].pc \in Terminal /\ inflight'[r].computeCalls = 0
    /\ ComputeAnswered(r) =>
           /\ inflight'[r].pc \in Terminal
           /\ inflight'[r].response.origin = "Lambda"
           /\ inflight'[r].primaryAttempts = inflight[r].primaryAttempts
           /\ inflight'[r].computeCalls = 1

\* The Lambda is invoked on a fallback status of the primary.
InvokedOnFallbackStatus(r) ==
    /\ PrimaryAnswered(r)
    /\ inflight'[r].response.origin = "bucket"
    /\ inflight'[r].response.status \in FallbackSet

(* C8, as claimed: every request that misses the edge cache attempts the    *)
(* primary origin at most once, and the Lambda is invoked exactly once if   *)
(* the primary's status is 403, 500, 503 or 504 and not at all otherwise;   *)
(* the Lambda's response causes no further attempt.                         *)
C8_RoutingPolicy ==
    [][\A r \in Slots :
          /\ AttemptsRule(r)
          /\ ComputeInvoked(r) => InvokedOnFallbackStatus(r)]_vars

(* C8, amended: the above holds when the origin is the origin group; when   *)
(* the Lambda URL is the sole origin (no bucket for transformed images), a  *)
(* request that misses the edge cache makes no primary attempt and invokes  *)
(* the Lambda exactly once, as it arrives.                                  *)
C8_RoutingPolicyPerConfiguration ==
    [][\A r \in Slots :
          /\ AttemptsRule(r)
          /\ ComputeInvoked(r) =>
                 IF OriginGroupConfigured
                 THEN InvokedOnFallbackStatus(r)
                 ELSE /\ Free(r)
                      /\ inflight'[r].primaryAttempts = 0
                      /\ inflight'[r].computeCalls = 1]_vars

C8_Witness ==
    /\ OriginGroupConfigured
    /\ \E r \in Slots :
           /\ inflight[r].via = "distribution"
           /\ inflight[r].pc = "STORE_AND_SERVE"
           /\ inflight[r].response.origin = "Lambda"
           /\ inflight[r].primaryAttempts = 1
           /\ inflight[r].computeCalls = 1

\* The key of the request in slot r is stored.
Stored(r) == inflight[r].uri \in DOMAIN transformedImages

\* A cold key: the primary answers with a fallback status and the Lambda is
\* invoked once, with the secret.
ColdKeyRule(r) ==
    PrimaryAnswered(r) /\ ~Stored(r) =>
        /\ inflight'[r].response.status \in FallbackSet
        /\ inflight'[r].pc = "FALLBACK_COMPUTE"
        /\ inflight'[r].computeCalls = 1
        /\ CarriesSecret(inflight'[r].originHeaders)

\* A successful invocation leaves the variant stored at the key of the request.
StoredOnSuccessRule(r) ==
    ComputeAnswered(r) /\ inflight'[r].response.status \in {200, 302} =>
        /\ inflight'[r].uri = inflight[r].uri
        /\ inflight[r].uri \in DOMAIN transformedImages'
        /\ transformedImages'[inflight[r].uri] = Transformed(inflight[r].uri)

(* C9, as claimed: for a cold key the primary answers with a fallback       *)
(* status and the Lambda is invoked exactly once with the secret header; a  *)
(* successful invocation stores the variant at the same key; and a later    *)
(* request for the key, while it is stored, is served by the primary        *)
(* without another invocation of the Lambda.                                *)
C9_StoredThenServedByPrimary ==
    [][OriginGroupConfigured =>
          \A r \in Slots :
              /\ ColdKeyRule(r)
              /\ StoredOnSuccessRule(r)
              /\ PrimaryAnswered(r) /\ inflight[r].warm /\ Stored(r) =>
                     /\ inflight'[r].pc = "SERVE"
                     /\ inflight'[r].response.origin = "bucket"
                     /\ inflight'[r].computeCalls = 0]_vars

(* C9, amended: the same for the cold key and the store on success; a later *)
(* request for the stored key is served by the primary without the Lambda   *)
(* when the primary answers 200, and is failed over to the Lambda, which is *)
(* invoked once more, when the primary answers 500, 503 or 504.             *)
C9_StoredThenServedUnlessPrimaryFails ==
    [][OriginGroupConfigured =>
          \A r \in Slots :
              /\ ColdKeyRule(r)
              /\ StoredOnSuccessRule(r)
              /\ PrimaryAnswered(r) /\ Stored(r) =>
                     IF inflight'[r].response.status = 200
                     THEN /\ inflight'[r].pc = "SERVE"
                          /\ inflight'[r].response.origin = "bucket"
                          /\ inflight'[r].computeCalls = 0
                     ELSE /\ inflight'[r].response.status \in {500, 503, 504}
                          /\ inflight'[r].pc = "FALLBACK_COMPUTE"
                          /\ inflight'[r].computeCalls = 1]_vars

C9_Witness ==
    /\ OriginGroupConfigured
    /\ \E r \in Slots :
           /\ inflight[r].pc = "SERVE"
           /\ inflight[r].response.origin = "bucket"
           /\ inflight[r].response.status = 200
           /\ inflight[r].computeCalls = 0
           /\ Stored(r)
           /\ transformedImages[inflight[r].uri] = Transformed(inflight[r].uri)

(* C10: every invocation of the Lambda by the distribution carries the      *)
(* secret header with the value given to the Lambda, with the origin group  *)
(* and with the Lambda URL as sole origin alike, and is not rejected for    *)
(* it; an invocation without the header or with another value ends in the  *)
(* authorization error, with no fetch, no transformation and no write.      *)
C10_SecretHeader ==
    \A r \in Slots :
        /\ inflight[r].via = "distribution" /\ inflight[r].computeCalls > 0 =>
               /\ CarriesSecret(inflight[r].originHeaders)
               /\ inflight[r].response.origin = "Lambda" =>
                      inflight[r].response.status # 403
        /\ /\ inflight[r].response.origin = "Lambda"
           /\ ~CarriesSecret(inflight[r].originHeaders)
           => /\ inflight[r].pc = "ERROR"
              /\ inflight[r].response.status = 403
              /\ ~inflight[r].response.fetched
              /\ ~inflight[r].response.transformed
              /\ ~inflight[r].response.stored

C10_Witness ==
    /\ ~OriginGroupConfigured
    /\ \E r, q \in Slots :
           /\ inflight[r].via = "distribution"
           /\ inflight[r].computeCalls = 1
           /\ inflight[r].response.origin = "Lambda"
           /\ inflight[r].response.status = 200
           /\ inflight[q].via = "Lambda URL"
           /\ "x-origin-secret-header" \in DOMAIN inflight[q].originHeaders
           /\ inflight[q].response.status = 403

\* The response in slot r is one the distribution sent to a viewer.
Delivered(r) == inflight[r].via = "distribution" /\ inflight[r].pc \in Terminal

\* The response carries the Vary marker on Accept and the marker header of
\* the pipeline with its version.
CarriesMarkers(headers) ==
    /\ "vary" \in DOMAIN headers
    /\ headers["vary"] = "accept"
    /\ "x-aws-image-optimization" \in DOMAIN headers
    /\ headers["x-aws-image-optimization"] = "v1.0"

(* C11: every response the distribution delivers carries the Vary marker on *)
(* Accept and the custom marker header, in every configuration of the stack.*)
C11_ResponseHeaders ==
    \A r \in Slots : Delivered(r) => CarriesMarkers(inflight[r].response.headers)

\* The part of C11 that holds: the same with CLOUDFRONT_CORS_ENABLED 'true'.
C11_ResponseHeadersWhenCorsEnabled ==
    deployment.CLOUDFRONT_CORS_ENABLED = "true" => C11_ResponseHeaders

\* The request in slot r came to the distribution and missed the edge cache.
MissedEdgeCache(r) ==
    /\ inflight[r].via = "distribution"
    /\ inflight[r].pc # "IDLE"
    /\ inflight[r].response.origin # "edge cache"

(* C12: when STORE_TRANSFORMED_IMAGES is not 'true', no bucket for          *)
(* transformed images is created or passed to the Lambda, nothing is ever   *)
(* stored, no primary lookup takes place and every edge cache miss goes     *)
(* straight to the Lambda; when it is 'true', the bucket is the primary     *)
(* origin and the Lambda is invoked only as its fallback.                   *)
C12_StoreOptional ==
    IF deployment.STORE_TRANSFORMED_IMAGES # "true"
    THEN /\ ~transformedImageBucket(deployment)
         /\ ~lambdaEnv(deployment).transformedImageBucketName
         /\ imageOrigin(deployment).kind = "HttpOrigin"
         /\ transformedImages = EmptyObject
         /\ \A r \in Slots :
                MissedEdgeCache(r) =>
                    inflight[r].primaryAttempts = 0 /\ inflight[r].computeCalls = 1
    ELSE /\ transformedImageBucket(deployment)
         /\ lambdaEnv(deployment).transformedImageBucketName
         /\ imageOrigin(deployment).kind = "OriginGroup"
         /\ \A r \in Slots :
                MissedEdgeCache(r) =>
                    /\ inflight[r].primaryAttempts = 1
                    /\ inflight[r].computeCalls = 1 =>
                           \/ inflight[r].pc = "FALLBACK_COMPUTE"
                           \/ inflight[r].response.origin = "Lambda"

\* The part of C12 that holds: the same of the stack of unnamed/part_000.
C12_StoreOptionalInPartStack == deployment.stack = PartStack => C12_StoreOptional

\* The canonical keys of the two inbound requests of the delivery run, and
\* what a lone request for each would have stored.
S_variant == S_format \o <<"=">> \o S_webp \o <<",">> \o S_width \o <<"=","3","0","0">>

CanonicalKeys == {S_cat \o <<"/">> \o S_variant, S_cat \o <<"/">> \o S_original}

LoneEntry(key) ==
    [asset |-> S_cat,
     operations |-> IF key = S_cat \o <<"/">> \o S_variant THEN S_variant
                    ELSE S_original]

(* C13: requests for the same cold key are not coalesced; each may invoke   *)
(* the Lambda, and every write of a successful invocation goes to the       *)
(* canonical key of its request, whole, with the content a lone request     *)
(* would have stored, and leaves every other entry alone: a second write    *)
(* to a stored key leaves the store as it is, so the store never holds a    *)
(* divergent entry.                                                         *)
C13_IdempotentOverwrite ==
    [][\A r \in Slots :
          LET key == inflight[r].uri
          IN /\ DOMAIN transformedImages' \subseteq CanonicalKeys
             /\ \A k \in DOMAIN transformedImages' :
                    transformedImages'[k] = LoneEntry(k)
             /\ ComputeAnswered(r) /\ inflight'[r].response.stored =>
                    /\ key \in CanonicalKeys
                    /\ DOMAIN transformedImages' = DOMAIN transformedImages \cup {key}
                    /\ transformedImages'[key] = LoneEntry(key)
                    /\ \A k \in DOMAIN transformedImages \ {key} :
                           transformedImages'[k] = transformedImages[k]
                    /\ key \in DOMAIN transformedImages =>
                           transformedImages' = transformedImages]_vars

\* Two requests for the same key, both failed over on the bucket's 403, both
\* answered by the Lambda, which stored the variant each time.
C13_Witness ==
    \E r, q \in Slots :
        /\ r # q
        /\ inflight[r].uri = S_cat \o <<"/">> \o S_variant
        /\ inflight[q].uri = inflight[r].uri
        /\ \A x \in {r, q} :
               /\ inflight[x].via = "distribution"
               /\ inflight[x].pc = "STORE_AND_SERVE"
               /\ inflight[x].primaryAttempts = 1
               /\ inflight[x].computeCalls = 1
               /\ inflight[x].response.stored
        /\ DOMAIN transformedImages = {inflight[r].uri}
        /\ transformedImages[inflight[r].uri] = LoneEntry(inflight[r].uri)

====
